---------------------------- MODULE Spec2Model ----------------------------
(***************************************************************************)
(* State-machine model of the number-fetcher admin backend:                *)
(*   - the Credential Profile Registry (services/profile_service.py and    *)
(*     the profile endpoints of routers/admin.py),                         *)
(*   - the Range Catalog (range endpoints of routers/admin.py and          *)
(*     services/range_service.py),                                         *)
(*   - the Cycling Service (services/timer_service.py).                    *)
(* Tables are modelled as values: api profiles as a function from the      *)
(* primary key to the row, number_ranges as the sequence of rows in        *)
(* ORDER BY updated_at DESC order, configurations as a function from the   *)
(* unique key to the JSON value.                                           *)
(***************************************************************************)
EXTENDS Integers, Sequences, FiniteSets, TLC

\* ------------------------------------------------------------------ bounds
MaxProfileId == 2
MaxClock == 2
MaxRanges == 3

\* ------------------------------------------------------------- input sets
Names == {"a", "b"}
Tokens == {"tok1", "tok2"}
RangeValues == {"r0", "r1", "r2"}
\* schemas.NumberRangeCreate.category pattern; the model's requests use
\* the first two of the three categories.
Categories == {"favorites", "recents"}
Requests == {1, 2}
Clients == {"ip1", "ip2"}

None == "None"
Unset == "Unset"
UpstreamToken == "sess"

\* outcomes of the upstream login call.  Three of them are an HTTP 200
\* answer whose body has code 200 and message "Login successful":
\*   ok             its data section is an object or is missing;
\*   ok_null_data   its data section is null, so data_section.get raises;
\*   ok_bad_expiry  its sessionExpires is not a string, so strptime raises
\*                  TypeError, which "except ValueError" does not catch.
LoginOutcomes == {"ok", "ok_null_data", "ok_bad_expiry", "rejected",
                  "http_error", "bad_json", "network_error"}

VARIABLES
    profiles,        \* api profile table: id -> row
    nextProfileId,   \* next primary key of the profile table
    clock,           \* datetime.utcnow() at login attempts (logical)
    number_ranges,   \* number_ranges table, most recently updated first
    configurations,  \* configurations table: key -> value
    last,            \* the response of the last completed operation
    run,             \* per category: the selections (position, value) of
                     \* the last cycle calls made since that category's
                     \* list last changed, at most one per list item
    req,             \* in-flight admin profile requests (concurrent spec)
    cyc,             \* in-flight cycle_ranges calls (concurrent spec)
    rate_limit_storage,  \* middleware.rate_limit_storage: client -> times
    admitted         \* per client: the times of all requests let through

vars == <<profiles, nextProfileId, clock, number_ranges,
          configurations, last, run, req, cyc, rate_limit_storage, admitted>>

profileVars == <<profiles, nextProfileId, clock>>
catalogVars == <<number_ranges, configurations, run>>
rateVars == <<rate_limit_storage, admitted>>

\* =====================================================================
\* Credential Profile Registry
\* =====================================================================

ActiveIds(ps) == {i \in DOMAIN ps : ps[i].is_active}

\* a deactivate_all_profiles that forgets to clear the flag
DeactivatedNoop(ps) == ps

\* ProfileService.deactivate_all_profiles: every row gets is_active = False
Deactivated(ps) == [i \in DOMAIN ps |-> [ps[i] EXCEPT !.is_active = FALSE]]

\* the row built by ProfileService.create_profile before the commit
NewProfile(name, tok) ==
    [name |-> name, auth_token |-> tok, session_token |-> None,
     is_active |-> TRUE, is_logged_in |-> FALSE,
     login_status |-> "not_attempted", last_login_attempt |-> 0]

\* a login_profile whose failure branches set login_status only
LoggedInStatusOnly(p, outcome, st, now) ==
    IF outcome = "ok"
    THEN [p EXCEPT !.last_login_attempt = now, !.is_logged_in = TRUE,
                   !.login_status = "success",
                   !.session_token = IF st = Unset THEN p.auth_token ELSE st]
    ELSE [p EXCEPT !.login_status = "failed"]

\* a login_profile that never calls the upstream
LoggedInSkipped(p, outcome, st, now) == p

\* ProfileService.login_profile on an existing row p: the row after the
\* attempt, for each outcome of the upstream call.  st is the authToken of
\* the upstream answer, Unset when the answer has none (the session token
\* then defaults to the profile's auth_token); now is the time of the
\* attempt.
LoggedIn(p, outcome, st, now) ==
    CASE outcome = "network_error" ->
            \* client.post raised: the outer except branch, line 126 not run
            [p EXCEPT !.is_logged_in = FALSE, !.login_status = "failed"]
      [] outcome = "ok" ->
            [p EXCEPT !.last_login_attempt = now, !.is_logged_in = TRUE,
                      !.login_status = "success",
                      !.session_token = IF st = Unset THEN p.auth_token
                                        ELSE st]
      [] outcome = "ok_bad_expiry" ->
            \* lines 136-142 ran before strptime raised; the "except
            \* Exception" branch resets the two status fields only
            [p EXCEPT !.last_login_attempt = now, !.is_logged_in = FALSE,
                      !.login_status = "failed",
                      !.session_token = IF st = Unset THEN p.auth_token
                                        ELSE st]
      [] OTHER ->
            [p EXCEPT !.last_login_attempt = now, !.is_logged_in = FALSE,
                      !.login_status = "failed"]

LoginSuccess(outcome) == outcome = "ok"

\* the upstream answered HTTP 200 with code 200 and "Login successful"
UpstreamAccepts(outcome) == outcome \in {"ok", "ok_null_data", "ok_bad_expiry"}

WithRow(ps, id, row) ==
    [i \in DOMAIN ps \cup {id} |-> IF i = id THEN row ELSE ps[i]]

\* a delete that makes the remaining row with the lowest id active
WithoutRowReassigned(ps, id) ==
    LET rest == DOMAIN ps \ {id}
    IN  [i \in rest |->
            IF \A j \in rest : i <= j THEN [ps[i] EXCEPT !.is_active = TRUE]
            ELSE ps[i]]

WithoutRow(ps, id) == [i \in DOMAIN ps \ {id} |-> ps[i]]

\* POST /profiles -> ProfileService.create_profile
CreateProfile(name, tok, outcome, st) ==
    /\ nextProfileId <= MaxProfileId
    /\ clock < MaxClock
    /\ LET id == nextProfileId
           row == LoggedIn(NewProfile(name, tok), outcome, st, clock + 1)
       IN  /\ profiles' = WithRow(Deactivated(profiles), id, row)
           /\ last' = [op |-> "create_profile", id |-> id,
                       ok |-> LoginSuccess(outcome)]
    /\ nextProfileId' = nextProfileId + 1
    /\ clock' = clock + 1
    /\ UNCHANGED <<catalogVars, req, cyc, rateVars>>

\* POST /profiles/{id}/activate -> ProfileService.activate_profile
ActivateProfile(id) ==
    /\ LET ps == Deactivated(profiles)
       IN  IF id \in DOMAIN ps
           THEN /\ profiles' = [ps EXCEPT ![id].is_active = TRUE]
                /\ last' = [op |-> "activate_profile", id |-> id, ok |-> TRUE,
                            was_active |-> ActiveIds(profiles)]
           ELSE /\ profiles' = ps
                /\ last' = [op |-> "activate_profile", id |-> id, ok |-> FALSE,
                            was_active |-> ActiveIds(profiles)]
    /\ UNCHANGED <<nextProfileId, clock, catalogVars, req, cyc, rateVars>>

\* POST /profiles/{id}/login -> ProfileService.login_profile
LoginProfile(id, outcome, st) ==
    /\ clock < MaxClock
    /\ IF id \in DOMAIN profiles
       THEN /\ profiles' = [profiles EXCEPT
                              ![id] = LoggedIn(@, outcome, st, clock + 1)]
            /\ last' = [op |-> "login_profile", id |-> id,
                        ok |-> LoginSuccess(outcome),
                        accepted |-> UpstreamAccepts(outcome)]
       ELSE /\ profiles' = profiles
            /\ last' = [op |-> "login_profile", id |-> id, ok |-> FALSE,
                        accepted |-> FALSE]
    /\ clock' = clock + 1
    /\ UNCHANGED <<nextProfileId, catalogVars, req, cyc, rateVars>>

\* PUT /profiles/{id} -> routers.admin.update_profile; APIProfileUpdate has
\* the two optional fields name and auth_token, and only the supplied ones
\* are assigned.
UpdateProfile(id, name, tok) ==
    /\ IF id \in DOMAIN profiles
       THEN /\ profiles' = [profiles EXCEPT
                  ![id].name = IF name = Unset THEN @ ELSE name,
                  ![id].auth_token = IF tok = Unset THEN @ ELSE tok]
            /\ last' = [op |-> "update_profile", id |-> id, ok |-> TRUE]
       ELSE /\ profiles' = profiles
            /\ last' = [op |-> "update_profile", id |-> id, ok |-> FALSE]
    /\ UNCHANGED <<nextProfileId, clock, catalogVars, req, cyc, rateVars>>

\* DELETE /profiles/{id} -> ProfileService.delete_profile
DeleteProfile(id) ==
    /\ IF id \in DOMAIN profiles
       THEN /\ profiles' = WithoutRow(profiles, id)
            /\ last' = [op |-> "delete_profile", id |-> id, ok |-> TRUE]
       ELSE /\ profiles' = profiles
            /\ last' = [op |-> "delete_profile", id |-> id, ok |-> FALSE]
    /\ UNCHANGED <<nextProfileId, clock, catalogVars, req, cyc, rateVars>>

\* ---------------------------------------------------------------- initial
NoProfiles == [i \in {} |-> 0]
NoConfig == [k \in {} |-> 0]
NoResponse == [op |-> "none"]
IdleReq == [pc |-> "idle", kind |-> "none", id |-> 0, seen |-> {}]
IdleCyc == [pc |-> "idle", category |-> None, len |-> 0, pos |-> 0,
            value |-> None, has_current |-> FALSE, has_index |-> FALSE]

Init ==
    /\ profiles = NoProfiles
    /\ nextProfileId = 1
    /\ clock = 0
    /\ number_ranges = <<>>
    /\ configurations = NoConfig
    /\ last = NoResponse
    /\ run = [c \in Categories |-> <<>>]
    /\ req = [r \in Requests |-> IdleReq]
    /\ cyc = [r \in Requests |-> IdleCyc]
    /\ rate_limit_storage = [ip \in Clients |-> <<>>]
    /\ admitted = [ip \in Clients |-> <<>>]

\* ------------------------------------------- sequential profile operations
\* the authToken values an answer can carry: only the outcomes that reach
\* line 142 read it
AnswerTokens(outcome) ==
    IF outcome \in {"ok", "ok_bad_expiry"} THEN {UpstreamToken, Unset}
    ELSE {Unset}

CreateProfileStep ==
    \E name \in Names, tok \in Tokens, outcome \in LoginOutcomes :
        \E st \in AnswerTokens(outcome) :
            CreateProfile(name, tok, outcome, st)
ActivateProfileStep == \E id \in 1..MaxProfileId : ActivateProfile(id)
LoginProfileStep ==
    \E id \in 1..MaxProfileId, outcome \in LoginOutcomes :
        \E st \in AnswerTokens(outcome) : LoginProfile(id, outcome, st)
UpdateProfileStep ==
    \E id \in 1..MaxProfileId, name \in Names \cup {Unset},
       tok \in Tokens \cup {Unset} : UpdateProfile(id, name, tok)
DeleteProfileStep == \E id \in 1..MaxProfileId : DeleteProfile(id)

NextProfile ==
    \/ CreateProfileStep
    \/ ActivateProfileStep
    \/ LoginProfileStep
    \/ UpdateProfileStep
    \/ DeleteProfileStep

SpecProfile == Init /\ [][NextProfile]_vars

\* C1: under sequential create / activate / login / update / delete of
\* profiles, at most one profile row has is_active = true.
AtMostOneActiveSequential == Cardinality(ActiveIds(profiles)) <= 1

\* a second profile was activated while another one existed
AtMostOneActiveSequentialWitness ==
    /\ Cardinality(DOMAIN profiles) >= 2
    /\ last.op = "activate_profile" /\ last.ok
    /\ ActiveIds(profiles) = {last.id}

\* C11: after activate(B) succeeds while another profile A was active,
\* exactly one profile is active and it is B.
ActivateReplacesActive ==
    (last.op = "activate_profile" /\ last.ok /\ last.was_active # {}) =>
        /\ ActiveIds(profiles) = {last.id}
        /\ \A a \in last.was_active \ {last.id} :
              a \in DOMAIN profiles => ~profiles[a].is_active

\* B was activated while a different, still existing profile A was active
ActivateReplacesActiveWitness ==
    /\ last.op = "activate_profile" /\ last.ok
    /\ \E a \in last.was_active :
          a # last.id /\ a \in DOMAIN profiles /\ ~profiles[a].is_active
    /\ profiles[last.id].is_active

\* C12: when create(name, auth_token) returns, the new profile is the only
\* active one and exactly one login attempt was made for it (one tick of
\* the clock), so its login_status is success or failed, never
\* not_attempted.
CreateActivatesAndLogsIn ==
    [][(last'.op = "create_profile" /\ nextProfileId' = nextProfileId + 1) =>
          /\ last'.id = nextProfileId
          /\ last'.id \in DOMAIN profiles'
          /\ ActiveIds(profiles') = {last'.id}
          /\ clock' = clock + 1
          /\ profiles'[last'.id].login_status \in {"success", "failed"}
          /\ profiles'[last'.id].login_status # "not_attempted"]_vars

\* a create that returned while another profile existed and had been active
CreateActivatesAndLogsInWitness ==
    /\ last.op = "create_profile"
    /\ Cardinality(DOMAIN profiles) >= 2
    /\ ActiveIds(profiles) = {last.id}
    /\ profiles[last.id].login_status = "failed"

\* C13: login(id) on an existing profile leaves is_logged_in = true and
\* login_status = success exactly when the upstream answered HTTP 200 with
\* code 200 and "Login successful"; every other outcome leaves false and
\* failed, and the call returns a failure value.
LoginSuccessIffUpstreamAccepts ==
    (last.op = "login_profile" /\ last.id \in DOMAIN profiles) =>
        IF last.accepted
        THEN /\ profiles[last.id].is_logged_in
             /\ profiles[last.id].login_status = "success"
             /\ last.ok
        ELSE /\ ~profiles[last.id].is_logged_in
             /\ profiles[last.id].login_status = "failed"
             /\ ~last.ok

\* C14: every login(id) attempt on an existing profile stamps
\* last_login_attempt with the time of the attempt, whatever the outcome.
LoginAlwaysStamps ==
    (last.op = "login_profile" /\ last.id \in DOMAIN profiles) =>
        profiles[last.id].last_login_attempt = clock

\* C25: in every state reachable by create, login, activate, update and
\* delete, each profile has is_logged_in = true exactly when its
\* login_status is success, and a login_status that has left
\* not_attempted never returns to it.
LoggedInIffSuccess ==
    /\ [](\A i \in DOMAIN profiles :
            profiles[i].is_logged_in <=> profiles[i].login_status = "success")
    /\ [][\A i \in DOMAIN profiles \cap DOMAIN profiles' :
            profiles[i].login_status # "not_attempted" =>
                profiles'[i].login_status # "not_attempted"]_vars

\* a profile that had logged in successfully failed a later login
LoggedInIffSuccessWitness ==
    /\ last.op = "login_profile" /\ ~last.ok
    /\ last.id \in DOMAIN profiles
    /\ profiles[last.id].login_status = "failed"
    /\ ~profiles[last.id].is_logged_in
    /\ profiles[last.id].session_token = UpstreamToken
    /\ profiles[last.id].last_login_attempt = MaxClock

\* C26: activate(id) with an id that no profile has reports failure after
\* its deactivate-all step was committed: afterwards no profile is
\* active, even if one was active before the call.
ActivateAbsentDeactivatesAll ==
    (last.op = "activate_profile" /\ ~last.ok) =>
        /\ last.id \notin DOMAIN profiles
        /\ ActiveIds(profiles) = {}

\* a failed activate that found a profile active
ActivateAbsentDeactivatesAllWitness ==
    /\ last.op = "activate_profile" /\ ~last.ok
    /\ last.was_active # {}
    /\ \A a \in last.was_active :
          a \in DOMAIN profiles /\ ~profiles[a].is_active

\* =====================================================================
\* External API Gateway (services/external_api.py)
\* =====================================================================

\* outcomes of one upstream call made by the Gateway: a usable HTTP 200
\* answer, a 200 answer of an unexpected shape, a 200 answer that is not
\* JSON, a non-200 status, and a network error or timeout
GatewayOutcomes == {"ok", "bad_format", "bad_json", "http_error",
                    "network_error"}
GatewayOps == {"fetch_number", "get_access_list", "get_balance"}
DefaultNumberRange == "24996218XXXX"

\* a get_active_profile_config that does not look at is_logged_in
GetActiveProfileConfigAnyLogin(ps) ==
    LET act == ActiveIds(ps)
    IN  IF act = {} THEN [kind |-> "absent"]
        ELSE IF Cardinality(act) > 1 THEN [kind |-> "raised"]
        ELSE LET p == ps[CHOOSE i \in act : TRUE]
             IN  [kind |-> "config", auth_token |-> p.auth_token,
                  session_token |-> IF p.session_token = None
                                    THEN p.auth_token ELSE p.session_token]

\* ProfileService.get_active_profile_config: get_active_profile is a
\* scalar_one_or_none over the rows with is_active, which raises when it
\* finds more than one row
GetActiveProfileConfig(ps) ==
    LET act == ActiveIds(ps)
    IN  IF act = {} THEN [kind |-> "absent"]
        ELSE IF Cardinality(act) > 1 THEN [kind |-> "raised"]
        ELSE LET p == ps[CHOOSE i \in act : TRUE]
             IN  IF ~p.is_logged_in THEN [kind |-> "absent"]
                 ELSE [kind |-> "config", auth_token |-> p.auth_token,
                       session_token |-> IF p.session_token = None
                                         THEN p.auth_token
                                         ELSE p.session_token]

\* a get_active_config that hands out the session token of the login
GetActiveConfigSessionToken(ps) ==
    LET pc == GetActiveProfileConfig(ps)
    IN  CASE pc.kind = "raised" -> [template |-> "raised"]
          [] pc.kind = "config" ->
                [template |-> "profile", auth_token |-> pc.session_token]
          [] OTHER -> [template |-> "default"]

\* ExternalAPIService.get_active_config: the profile template with the
\* key auth_token, or the default template without it
GetActiveConfig(ps) ==
    LET pc == GetActiveProfileConfig(ps)
    IN  CASE pc.kind = "raised" -> [template |-> "raised"]
          [] pc.kind = "config" ->
                [template |-> "profile", auth_token |-> pc.auth_token]
          [] OTHER -> [template |-> "default"]

\* the credential part of the outbound request built from a config
Credential(config) ==
    IF "auth_token" \in DOMAIN config
    THEN [carries |-> TRUE, authToken |-> config.auth_token]
    ELSE [carries |-> FALSE, authToken |-> None]

\* what the caller of an operation gets
GatewayResponse(op, number_range, config, outcome, result) ==
    [op |-> op, numberRange |-> number_range,
     sent |-> config.template # "raised",
     carries |-> Credential(config).carries,
     authToken |-> Credential(config).authToken,
     outcome |-> outcome, result |-> result]

\* ExternalAPIService.fetch_number: no try/except; the httpx.Response is
\* returned as it is, whatever its status and body
FetchNumber(number_range, outcome) ==
    /\ LET config == GetActiveConfig(profiles)
           nr == IF number_range = None THEN DefaultNumberRange
                 ELSE number_range
       IN  last' = GatewayResponse("fetch_number", nr, config, outcome,
                      IF config.template = "raised" THEN "raised"
                      ELSE IF outcome = "network_error" THEN "raised"
                      ELSE "response")
    /\ UNCHANGED <<profileVars, catalogVars, req, cyc, rateVars>>

\* ---------------------------------------------- get_access_list payload
MaxResults == 3
Latest == 10
DefaultDatetime == "1900-01-01 00:00:00"

\* datetime.strptime(d, "%Y-%m-%d %H:%M:%S"): the strings of the model that
\* match the format, and the instant each one denotes (as yyyymmdd)
Parsable(d) ==
    d \in {"2024-01-01 00:00:00", "2024-01-02 00:00:00", DefaultDatetime}
Strptime(d) ==
    CASE d = "2024-01-01 00:00:00" -> 20240101
      [] d = "2024-01-02 00:00:00" -> 20240102
      [] d = DefaultDatetime -> 19000101

\* x.get("Datetime", "1900-01-01 00:00:00")
DatetimeOf(x) ==
    IF "Datetime" \in DOMAIN x THEN x.Datetime ELSE DefaultDatetime

\* list.sort(key, reverse=True) on computed keys: stable, so entries of
\* equal key keep their order.  InsertDesc puts x behind every entry whose
\* key is not smaller.
RECURSIVE InsertDesc(_, _)
InsertDesc(s, x) ==
    IF s = <<>> THEN <<x>>
    ELSE IF Strptime(DatetimeOf(Head(s))) >= Strptime(DatetimeOf(x))
         THEN <<Head(s)>> \o InsertDesc(Tail(s), x)
         ELSE <<x>> \o s

RECURSIVE SortDesc(_)
SortDesc(s) ==
    IF s = <<>> THEN <<>>
    ELSE InsertDesc(SortDesc(SubSeq(s, 1, Len(s) - 1)), s[Len(s)])

\* lines 126-137: the keys are computed before the list is rearranged;
\* when strptime raises on one entry the except branch passes and the
\* list keeps the upstream order
SortedResults(results) ==
    IF \A i \in 1..Len(results) : Parsable(DatetimeOf(results[i]))
    THEN SortDesc(results)
    ELSE results

\* result.get("Test number", "").strip()
Stripped(t) == IF t = " " THEN "" ELSE t

\* lines 139-150: the entries with a test number, as returned
WorkingNumbers(results) ==
    LET HasNumber(x) == Stripped(x.Test_number) # ""
        kept == SelectSeq(results, HasNumber)
    IN  [i \in 1..Len(kept) |->
            [test_number |-> Stripped(kept[i].Test_number),
             datetime |-> IF "Datetime" \in DOMAIN kept[i]
                          THEN kept[i].Datetime ELSE ""]]

\* working_numbers[:10]
Take(s, n) == IF Len(s) > n THEN SubSeq(s, 1, n) ELSE s

\* ExternalAPIService.get_access_list: the whole body is inside
\* try/except Exception.  results is the "results" list of a usable answer.
GetAccessList(outcome, results) ==
    /\ LET config == GetActiveConfig(profiles)
           ok == config.template # "raised" /\ outcome = "ok"
       IN  last' = GatewayResponse("get_access_list", None, config, outcome,
                                   IF ok THEN "success" ELSE "failure")
                   @@ [results |-> results,
                       working_numbers |->
                           IF ok
                           THEN Take(WorkingNumbers(SortedResults(results)),
                                     Latest)
                           ELSE <<>>,
                       total_results |-> IF ok THEN Len(results) ELSE 0]
    /\ UNCHANGED <<profileVars, catalogVars, req, cyc, rateVars>>

\* ------------------------------------------------- get_balance payload
\* amounts are counted in ten-thousandths
RoundUnit == 10

\* a rounding to 2 decimal places
Round2(x) == ((x + 50) \div 100) * 100

\* round(total, 3) on a non-negative amount that is not a tie
Round3(x) == ((x + 5) \div RoundUnit) * RoundUnit

\* item.get("amount", 0)
AmountOf(item) == IF "amount" \in DOMAIN item THEN item.amount ELSE 0

\* sum(item.get("amount", 0) for item in balance_data)
RECURSIVE PySum(_)
PySum(s) ==
    IF s = <<>> THEN 0
    ELSE PySum(SubSeq(s, 1, Len(s) - 1)) + AmountOf(s[Len(s)])

\* ExternalAPIService.get_balance: the whole body is inside
\* try/except Exception.  balance_data is the array of a usable answer;
\* the outcome bad_format is an answer that is not an array.
GetBalance(outcome, balance_data) ==
    /\ LET config == GetActiveConfig(profiles)
           ok == /\ config.template # "raised" /\ outcome = "ok"
                 /\ Len(balance_data) > 0
       IN  last' = GatewayResponse("get_balance", None, config, outcome,
                                   IF ok THEN "success" ELSE "failure")
                   @@ [balance_data |-> balance_data,
                       today_balance |->
                           IF ok THEN AmountOf(balance_data[1]) ELSE 0,
                       total_balance |->
                           IF ok THEN Round3(PySum(balance_data)) ELSE 0]
    /\ UNCHANGED <<profileVars, catalogVars, req, cyc, rateVars>>

\* profile requests of the Gateway specification: one name, and the
\* login outcomes that differ in the fields the Gateway reads
GwCreateProfileStep ==
    \E tok \in Tokens, outcome \in {"ok", "network_error"} :
        CreateProfile("a", tok, outcome, Unset)
GwLoginProfileStep ==
    \E id \in 1..MaxProfileId, outcome \in {"ok", "rejected"} :
        \E st \in AnswerTokens(outcome) : LoginProfile(id, outcome, st)
GwUpdateProfileStep ==
    \E id \in 1..MaxProfileId, tok \in Tokens : UpdateProfile(id, Unset, tok)
FetchNumberStep ==
    \E number_range \in {None, "r0"}, outcome \in GatewayOutcomes :
        FetchNumber(number_range, outcome)
GetAccessListStep ==
    \E outcome \in GatewayOutcomes : GetAccessList(outcome, <<>>)
GetBalanceStep ==
    \E outcome \in GatewayOutcomes :
        GetBalance(outcome, <<[amount |-> 11000]>>)

NextGateway ==
    \/ GwCreateProfileStep
    \/ ActivateProfileStep
    \/ GwLoginProfileStep
    \/ GwUpdateProfileStep
    \/ DeleteProfileStep
    \/ FetchNumberStep
    \/ GetAccessListStep
    \/ GetBalanceStep

SpecGateway == Init /\ [][NextGateway]_vars

\* C15: an outbound Gateway request carries a profile credential exactly
\* when an active profile exists and is logged in, and the credential is
\* then that profile's token; otherwise the default template without a
\* token is used.
GatewayCredentialIffLoggedInActive ==
    (last.op \in GatewayOps /\ last.sent) =>
        /\ last.carries <=>
              \E i \in DOMAIN profiles :
                  profiles[i].is_active /\ profiles[i].is_logged_in
        /\ last.carries =>
              \A i \in DOMAIN profiles :
                  profiles[i].is_active => last.authToken = profiles[i].auth_token
        /\ ~last.carries => last.authToken = None

\* a request was sent with the active profile's token while another,
\* logged-in but inactive, profile holds a different token
GatewayCredentialIffLoggedInActiveWitness ==
    /\ last.op \in GatewayOps /\ last.sent /\ last.carries
    /\ \E i, j \in DOMAIN profiles :
          /\ profiles[i].is_active /\ last.authToken = profiles[i].auth_token
          /\ ~profiles[j].is_active /\ profiles[j].is_logged_in
          /\ profiles[j].auth_token # profiles[i].auth_token

\* C16: for every Gateway operation an upstream failure (non-200 status,
\* malformed JSON, network error or timeout) is converted to a
\* {success: false, error} value and never propagated as an exception.
GatewayFailureIsValue ==
    (/\ last.op \in GatewayOps /\ last.sent
     /\ last.outcome \in {"http_error", "bad_json", "network_error"}) =>
        last.result = "failure"

\* ------------------------------------------- answers with a payload
\* entries of an upstream result list: two dated ones, one without the
\* Datetime key, one with a Datetime that is no date, one without a number
AccessEntries ==
    {[Datetime |-> "2024-01-01 00:00:00", Test_number |-> "n1"],
     [Datetime |-> "2024-01-02 00:00:00", Test_number |-> "n2"],
     [Test_number |-> "n3"],
     [Datetime |-> "n/a", Test_number |-> "n4"],
     [Datetime |-> "2024-01-02 00:00:00", Test_number |-> " "]}

\* entries of an upstream balance array; 11000 is 1.1 and 22290 is 2.229
BalanceEntries ==
    {[amount |-> 0], [amount |-> 11000], [amount |-> 22290], [otp |-> 3]}

SeqsUpTo(S, n) == UNION {[1..k -> S] : k \in 0..n}

AccessListPayloadStep ==
    \E results \in SeqsUpTo(AccessEntries, MaxResults) :
        GetAccessList("ok", results)
BalancePayloadStep ==
    \/ \E balance_data \in SeqsUpTo(BalanceEntries, MaxResults) :
          GetBalance("ok", balance_data)
    \/ GetBalance("bad_format", <<>>)

NextPayload ==
    \/ AccessListPayloadStep
    \/ BalancePayloadStep

SpecPayload == Init /\ [][NextPayload]_vars

\* the date an entry of the answer counts as: 1900-01-01 when its
\* datetime is missing or is no date
EffectiveDate(w) ==
    IF Parsable(w.datetime) THEN Strptime(w.datetime)
    ELSE Strptime(DefaultDatetime)

\* C22: for every successful result list, get_access_list returns the
\* entries ordered by Datetime, latest first, an entry without a parsable
\* Datetime counting as 1900-01-01 and so coming after every dated entry,
\* and returns at most 10 entries.
AccessListLatestFirst ==
    (last.op = "get_access_list" /\ last.result = "success") =>
        /\ Len(last.working_numbers) <= Latest
        /\ \A i, j \in 1..Len(last.working_numbers) :
              i < j => EffectiveDate(last.working_numbers[i]) >=
                       EffectiveDate(last.working_numbers[j])

\* the amounts of the entries from position i on, added up
RECURSIVE AmountsFrom(_, _)
AmountsFrom(s, i) ==
    IF i > Len(s) THEN 0 ELSE AmountOf(s[i]) + AmountsFrom(s, i + 1)

\* C23: for a non-empty array, get_balance returns today_balance = the
\* amount of the entry at index 0 and total_balance = the sum of all
\* amounts rounded to 3 decimal places; an empty array or a payload that
\* is no array gives a failure value.
BalanceTotals ==
    (/\ last.op = "get_balance" /\ last.sent
     /\ last.outcome \in {"ok", "bad_format"}) =>
        IF last.outcome = "ok" /\ last.balance_data # <<>>
        THEN /\ last.result = "success"
             /\ last.today_balance = AmountOf(last.balance_data[1])
             /\ last.total_balance % RoundUnit = 0
             /\ 2 * (last.total_balance - AmountsFrom(last.balance_data, 1))
                    \in (1 - RoundUnit)..RoundUnit
        ELSE last.result = "failure"

\* the answer [{amount: 1.1}, {amount: 2.229}]: total 3.329, today 1.1
BalanceTotalsWitness ==
    /\ last.op = "get_balance" /\ last.result = "success"
    /\ last.balance_data = <<[amount |-> 11000], [amount |-> 22290]>>
    /\ last.today_balance = 11000
    /\ last.total_balance = 33290

\* C21: deleting the active profile removes it and reassigns nothing:
\* afterwards no profile is active and the Gateway uses the default
\* template; a profile becomes active again only by activate or create.
DeleteActiveLeavesNoneActive ==
    [][/\ (/\ last'.op = "delete_profile" /\ last'.ok
            /\ last'.id \in ActiveIds(profiles)) =>
              /\ last'.id \notin DOMAIN profiles'
              /\ ActiveIds(profiles') = {}
              /\ GetActiveConfig(profiles').template = "default"
              /\ ~Credential(GetActiveConfig(profiles')).carries
       /\ (ActiveIds(profiles) = {} /\ ActiveIds(profiles') # {}) =>
              last'.op \in {"activate_profile", "create_profile"}
       /\ (ActiveIds(profiles) = {} /\ last'.op \in GatewayOps) =>
              ~last'.carries]_vars

\* a Gateway request went out without a token although a logged-in
\* profile is left, because the active profile was deleted
DeleteActiveLeavesNoneActiveWitness ==
    /\ last.op \in GatewayOps /\ last.sent /\ ~last.carries
    /\ nextProfileId > MaxProfileId
    /\ Cardinality(DOMAIN profiles) = MaxProfileId - 1
    /\ ActiveIds(profiles) = {}
    /\ \E i \in DOMAIN profiles : profiles[i].is_logged_in

\* =====================================================================
\* Concurrent admin requests on the profile table.  Every request has its
\* own AsyncSession (database.get_db); the requests interleave at the
\* awaits of ProfileService, i.e. between the SELECT of
\* deactivate_all_profiles, its commit, and the commit of the activation
\* or insert.
\* =====================================================================

\* deactivate_all_profiles, lines 70-74: SELECT every row and set
\* is_active = False on the loaded objects; the rows whose flag changes
\* are the ones the flush will UPDATE.
ReqSelectAll(r, kind, id) ==
    /\ req[r].pc = "idle"
    /\ req' = [req EXCEPT ![r] = [pc |-> "selected", kind |-> kind,
                                  id |-> id, seen |-> ActiveIds(profiles)]]
    /\ UNCHANGED <<profileVars, catalogVars, last, cyc, rateVars>>

\* deactivate_all_profiles, line 76: commit the UPDATEs of the dirty rows
ReqCommitDeactivate(r) ==
    /\ req[r].pc = "selected"
    /\ profiles' = [i \in DOMAIN profiles |->
                      IF i \in req[r].seen
                      THEN [profiles[i] EXCEPT !.is_active = FALSE]
                      ELSE profiles[i]]
    /\ req' = [req EXCEPT ![r].pc = "deactivated"]
    /\ UNCHANGED <<nextProfileId, clock, catalogVars, last, cyc, rateVars>>

\* activate_profile, lines 56-66
ReqActivate(r) ==
    /\ req[r].pc = "deactivated"
    /\ req[r].kind = "activate"
    /\ IF req[r].id \in DOMAIN profiles
       THEN /\ profiles' = [profiles EXCEPT ![req[r].id].is_active = TRUE]
            /\ last' = [op |-> "activate_profile", id |-> req[r].id,
                        ok |-> TRUE, was_active |-> req[r].seen]
       ELSE /\ profiles' = profiles
            /\ last' = [op |-> "activate_profile", id |-> req[r].id,
                        ok |-> FALSE, was_active |-> req[r].seen]
    /\ req' = [req EXCEPT ![r] = IdleReq]
    /\ UNCHANGED <<nextProfileId, clock, catalogVars, cyc, rateVars>>

\* create_profile, lines 21-31: insert the new active row and commit
ReqInsert(r, name, tok) ==
    /\ req[r].pc = "deactivated"
    /\ req[r].kind = "create"
    /\ nextProfileId <= MaxProfileId
    /\ profiles' = WithRow(profiles, nextProfileId, NewProfile(name, tok))
    /\ nextProfileId' = nextProfileId + 1
    /\ req' = [req EXCEPT ![r].pc = "inserted", ![r].id = nextProfileId]
    /\ UNCHANGED <<clock, catalogVars, last, cyc, rateVars>>

\* create_profile, line 34: the auto-login of the inserted profile
ReqLogin(r, outcome, st) ==
    /\ req[r].pc = "inserted"
    /\ clock < MaxClock
    /\ IF req[r].id \in DOMAIN profiles
       THEN profiles' = [profiles EXCEPT
                           ![req[r].id] = LoggedIn(@, outcome, st, clock + 1)]
       ELSE profiles' = profiles
    /\ clock' = clock + 1
    /\ last' = [op |-> "create_profile", id |-> req[r].id,
                ok |-> LoginSuccess(outcome)]
    /\ req' = [req EXCEPT ![r] = IdleReq]
    /\ UNCHANGED <<nextProfileId, catalogVars, cyc, rateVars>>

ReqSelectAllStep ==
    \E r \in Requests :
        \/ \E id \in 1..MaxProfileId : ReqSelectAll(r, "activate", id)
        \/ ReqSelectAll(r, "create", 0)
ReqCommitDeactivateStep == \E r \in Requests : ReqCommitDeactivate(r)
ReqActivateStep == \E r \in Requests : ReqActivate(r)
ReqInsertStep ==
    \E r \in Requests, name \in {"a"}, tok \in {"tok1"} :
        ReqInsert(r, name, tok)
ReqLoginStep ==
    \E r \in Requests, outcome \in {"ok", "rejected"} :
        \E st \in {UpstreamToken, Unset} : ReqLogin(r, outcome, st)

NextProfileConc ==
    \/ ReqSelectAllStep
    \/ ReqCommitDeactivateStep
    \/ ReqActivateStep
    \/ ReqInsertStep
    \/ ReqLoginStep

SpecProfileConc == Init /\ [][NextProfileConc]_vars

\* C2: while two activate / create requests run concurrently, no state has
\* two distinct profile rows with is_active = true.
AtMostOneActiveConcurrent ==
    \A i \in DOMAIN profiles, j \in DOMAIN profiles :
        (profiles[i].is_active /\ profiles[j].is_active) => i = j

\* =====================================================================
\* Range Catalog
\*
\* number_ranges is the table in ORDER BY updated_at DESC order (the order
\* of every listing query), timestamps of distinct commits being distinct.
\* No operation depends on the numeric value of the primary key, so a row
\* is addressed by its rank in that order: range_id i is the i-th row, and
\* an id beyond the length of the table is an id no row has.
\* =====================================================================

\* rows of number_ranges matching a (range_value, category) filter
Matching(rs, v, c) ==
    {i \in 1..Len(rs) : rs[i].range_value = v /\ rs[i].category = c}

\* Result.scalar_one_or_none() over n result rows
ScalarOneOrNone(n) ==
    IF n = 0 THEN "none" ELSE IF n = 1 THEN "one" ELSE "MultipleResultsFound"

RemoveAt(rs, i) == SubSeq(rs, 1, i - 1) \o SubSeq(rs, i + 1, Len(rs))

\* a get_category_ranges without its WHERE clause
CategoryRangesAll(rs, c) == rs

\* RangeService.get_category_ranges: WHERE category = c ORDER BY
\* updated_at DESC
CategoryRanges(rs, c) ==
    LET InCategory(x) == x.category = c IN SelectSeq(rs, InCategory)

\* the cycle history of a category is kept while its list is unchanged
RunAfter(rs) ==
    [c \in Categories |->
        IF CategoryRanges(rs, c) = CategoryRanges(number_ranges, c)
        THEN run[c] ELSE <<>>]

\* INSERT of a new number_ranges row; updated_at = now() puts it first
Inserted(v, c) ==
    /\ Len(number_ranges) < MaxRanges
    /\ LET rs == <<[range_value |-> v, category |-> c]>> \o number_ranges
       IN  /\ number_ranges' = rs
           /\ run' = RunAfter(rs)

\* POST /ranges -> routers.admin.create_range
CreateRange(v, c) ==
    /\ LET found == ScalarOneOrNone(Cardinality(Matching(number_ranges, v, c)))
       IN  CASE found = "MultipleResultsFound" ->
                 /\ last' = [op |-> "create_range", status |-> 500]
                 /\ UNCHANGED <<number_ranges, run>>
             [] found = "one" ->
                 /\ last' = [op |-> "create_range", status |-> 400]
                 /\ UNCHANGED <<number_ranges, run>>
             [] OTHER ->
                 /\ Inserted(v, c)
                 /\ last' = [op |-> "create_range", status |-> 200]
    /\ UNCHANGED <<profileVars, configurations, req, cyc, rateVars>>

\* RangeService.add_to_category
AddToCategory(v, c) ==
    /\ LET found == ScalarOneOrNone(Cardinality(Matching(number_ranges, v, c)))
       IN  CASE found = "MultipleResultsFound" ->
                 /\ last' = [op |-> "add_to_category", status |-> 500]
                 /\ UNCHANGED <<number_ranges, run>>
             [] found = "one" ->
                 /\ last' = [op |-> "add_to_category", status |-> 400]
                 /\ UNCHANGED <<number_ranges, run>>
             [] OTHER ->
                 /\ Inserted(v, c)
                 /\ last' = [op |-> "add_to_category", status |-> 200]
    /\ UNCHANGED <<profileVars, configurations, req, cyc, rateVars>>

\* an update that assigns every field of the request model, the unset
\* ones as None
UpdatedRowAllFields(old, v, c) ==
    [range_value |-> IF v = Unset THEN None ELSE v,
     category |-> IF c = Unset THEN None ELSE c]

\* range_data.dict(exclude_unset=True) and the setattr loop
UpdatedRow(old, v, c) ==
    [range_value |-> IF v = Unset THEN old.range_value ELSE v,
     category |-> IF c = Unset THEN old.category ELSE c]

\* PUT /ranges/{id} -> routers.admin.update_range.  Only the supplied
\* fields are assigned.  touch says that the request supplies an
\* extra_data different from the stored one.  When a column changes, the
\* UPDATE also sets updated_at = now(), which moves the row to the front.
UpdateRange(id, v, c, touch) ==
    /\ IF id > Len(number_ranges)
       THEN /\ last' = [op |-> "update_range", status |-> 404]
            /\ UNCHANGED <<number_ranges, run>>
       ELSE LET old == number_ranges[id]
                new == UpdatedRow(old, v, c)
                rs == IF new = old /\ ~touch THEN number_ranges
                      ELSE <<new>> \o RemoveAt(number_ranges, id)
            IN  /\ number_ranges' = rs
                /\ run' = RunAfter(rs)
                /\ last' = [op |-> "update_range", status |-> 200]
    /\ UNCHANGED <<profileVars, configurations, req, cyc, rateVars>>

\* DELETE /ranges/{id} -> routers.admin.delete_range
DeleteRange(id) ==
    /\ IF id > Len(number_ranges)
       THEN /\ last' = [op |-> "delete_range", status |-> 404]
            /\ UNCHANGED <<number_ranges, run>>
       ELSE LET rs == RemoveAt(number_ranges, id)
            IN  /\ number_ranges' = rs
                /\ run' = RunAfter(rs)
                /\ last' = [op |-> "delete_range", status |-> 200]
    /\ UNCHANGED <<profileVars, configurations, req, cyc, rateVars>>

\* RangeService.remove_from_category
RemoveFromCategory(v, c) ==
    /\ LET m == Matching(number_ranges, v, c)
           found == ScalarOneOrNone(Cardinality(m))
       IN  CASE found = "MultipleResultsFound" ->
                 /\ last' = [op |-> "remove_from_category", status |-> 500]
                 /\ UNCHANGED <<number_ranges, run>>
             [] found = "none" ->
                 /\ last' = [op |-> "remove_from_category", status |-> 404]
                 /\ UNCHANGED <<number_ranges, run>>
             [] OTHER ->
                 LET rs == RemoveAt(number_ranges, CHOOSE k \in m : TRUE)
                 IN  /\ number_ranges' = rs
                     /\ run' = RunAfter(rs)
                     /\ last' = [op |-> "remove_from_category",
                                 status |-> 200]
    /\ UNCHANGED <<profileVars, configurations, req, cyc, rateVars>>

\* =====================================================================
\* Cycling Service
\* =====================================================================

\* one index row shared by all categories
IndexKeyShared(c) == "cycle_index"

IndexKey(c) == c \o "_cycle_index"

\* an upsert that merges the new fields into the stored value
UpsertMerge(cfg, key, value) ==
    [k \in DOMAIN cfg \cup {key} |->
        IF k # key THEN cfg[k]
        ELSE IF key \notin DOMAIN cfg THEN value
        ELSE [f \in DOMAIN cfg[key] \cup DOMAIN value |->
                 IF f \in DOMAIN value THEN value[f] ELSE cfg[key][f]]]

\* upsert of a configurations row: the whole value is replaced
Upsert(cfg, key, value) ==
    [k \in DOMAIN cfg \cup {key} |-> IF k = key THEN value ELSE cfg[k]]

\* config.value.get("index", 0) if config else 0
StoredIndex(cfg, c) ==
    IF IndexKey(c) \in DOMAIN cfg THEN cfg[IndexKey(c)].index ELSE 0

\* a wrap test that lets index = len through
WrapIndexOffByOne(stored, len) == IF stored > len THEN 0 ELSE stored

\* a wrap that takes the stored index modulo the length
WrapIndexModulo(stored, len) == stored % len

\* cycle_ranges lines 117-118: if current_index >= len(ranges): 0
WrapIndex(stored, len) == IF stored >= len THEN 0 ELSE stored

\* an index write that does not advance
NextIndexStuck(idx) == idx

\* cycle_ranges line 143: "index": current_index + 1
NextIndex(idx) == idx + 1

\* Python list indexing ranges[idx]: valid for -len <= idx < len
InBounds(idx, len) == -len <= idx /\ idx < len
PyItem(s, idx) == IF idx >= 0 THEN s[idx + 1] ELSE s[Len(s) + idx + 1]

KeepLast(s, n) == IF Len(s) > n THEN SubSeq(s, Len(s) - n + 1, Len(s)) ELSE s

\* TimerService.cycle_ranges
CycleRanges(c) ==
    /\ LET ranges == CategoryRanges(number_ranges, c)
           n == Len(ranges)
           stored == StoredIndex(configurations, c)
           idx == WrapIndex(stored, n)
           resp == [op |-> "cycle_ranges", category |-> c, len |-> n,
                    had_index |-> IndexKey(c) \in DOMAIN configurations,
                    stored |-> stored, pos |-> 0, value |-> None,
                    error |-> None]
       IN  IF n = 0
           THEN /\ last' = resp
                /\ UNCHANGED <<configurations, run>>
           ELSE IF ~InBounds(idx, n)
           THEN /\ last' = [resp EXCEPT !.pos = idx, !.error = "IndexError"]
                /\ UNCHANGED <<configurations, run>>
           ELSE LET current_range == PyItem(ranges, idx)
                    current_config ==
                        [current_range |-> current_range.range_value,
                         category |-> c]
                    index_config == [index |-> NextIndex(idx)]
                IN  /\ configurations' =
                          Upsert(Upsert(configurations, "current_range",
                                        current_config),
                                 IndexKey(c), index_config)
                    /\ run' = [run EXCEPT ![c] =
                                  KeepLast(Append(@, [pos |-> idx, value |->
                                      current_range.range_value]), n)]
                    /\ last' = [resp EXCEPT
                                  !.pos = idx,
                                  !.value = current_range.range_value]
    /\ UNCHANGED <<profileVars, number_ranges, req, cyc, rateVars>>

\* ------------------------------------------ sequential catalog operations
CreateRangeStep ==
    \E v \in RangeValues, c \in Categories : CreateRange(v, c)
AddToCategoryStep ==
    \E v \in RangeValues, c \in Categories : AddToCategory(v, c)
UpdateRangeStep ==
    \E id \in 1..MaxRanges, v \in RangeValues \cup {Unset},
       c \in Categories \cup {Unset}, touch \in BOOLEAN :
        UpdateRange(id, v, c, touch)
DeleteRangeStep == \E id \in 1..MaxRanges : DeleteRange(id)
RemoveFromCategoryStep ==
    \E v \in RangeValues, c \in Categories : RemoveFromCategory(v, c)

NextCatalog ==
    \/ CreateRangeStep
    \/ AddToCategoryStep
    \/ UpdateRangeStep
    \/ DeleteRangeStep
    \/ RemoveFromCategoryStep

\* the Range Catalog under its create / update / delete operations
SpecCatalog == Init /\ [][NextCatalog]_vars

\* ------------------------------------- catalog operations and cycle calls
\* the category whose timer is cycled
CycleCategories == {"favorites"}

CycleRangesStep == \E c \in CycleCategories : CycleRanges(c)

NextCycle ==
    \/ CreateRangeStep
    \/ UpdateRangeStep
    \/ DeleteRangeStep
    \/ CycleRangesStep

\* cycle calls interleaved with admin changes of the catalog
SpecCycle == Init /\ [][NextCycle]_vars

\* =====================================================================
\* Concurrent cycle_ranges calls.  Every call has its own AsyncSession and
\* the calls interleave at the awaits of cycle_ranges: after the reads of
\* lines 103-120, after the SELECT of the current_range row (line 130),
\* after the SELECT of the index row (line 147), and at the commit
\* (line 158), which writes both rows in one transaction.
\* =====================================================================

\* lines 103-120: read the category list and the stored index, wrap, pick
CycRead(r, c) ==
    /\ cyc[r].pc = "idle"
    /\ LET ranges == CategoryRanges(number_ranges, c)
           n == Len(ranges)
           idx == WrapIndex(StoredIndex(configurations, c), n)
       IN  IF n = 0
           THEN cyc' = [cyc EXCEPT ![r] =
                          [IdleCyc EXCEPT !.pc = "done", !.category = c]]
           ELSE cyc' = [cyc EXCEPT ![r] =
                          [IdleCyc EXCEPT !.pc = "read", !.category = c,
                                          !.len = n, !.pos = idx,
                                          !.value = PyItem(ranges, idx)
                                                        .range_value]]
    /\ UNCHANGED <<profileVars, catalogVars, last, req, rateVars>>

\* lines 130-139: SELECT the current_range row; assign or add
CycLookupCurrent(r) ==
    /\ cyc[r].pc = "read"
    /\ cyc' = [cyc EXCEPT ![r].pc = "current",
                          ![r].has_current =
                              "current_range" \in DOMAIN configurations]
    /\ UNCHANGED <<profileVars, catalogVars, last, req, rateVars>>

\* lines 147-156: SELECT the index row; assign or add
CycLookupIndex(r) ==
    /\ cyc[r].pc = "current"
    /\ cyc' = [cyc EXCEPT ![r].pc = "index",
                          ![r].has_index =
                              IndexKey(cyc[r].category) \in
                                  DOMAIN configurations]
    /\ UNCHANGED <<profileVars, catalogVars, last, req, rateVars>>

\* line 158: commit.  A row the call adds although its unique key was
\* inserted meanwhile makes the commit fail with IntegrityError, and
\* nothing is written; otherwise both values are replaced.
CycCommit(r) ==
    /\ cyc[r].pc = "index"
    /\ LET c == cyc[r].category
           conflict ==
               \/ ~cyc[r].has_current /\ "current_range" \in
                                             DOMAIN configurations
               \/ ~cyc[r].has_index /\ IndexKey(c) \in DOMAIN configurations
       IN  IF conflict
           THEN /\ cyc' = [cyc EXCEPT ![r].pc = "failed"]
                /\ UNCHANGED configurations
           ELSE /\ configurations' =
                      Upsert(Upsert(configurations, "current_range",
                                    [current_range |-> cyc[r].value,
                                     category |-> c]),
                             IndexKey(c), [index |-> NextIndex(cyc[r].pos)])
                /\ cyc' = [cyc EXCEPT ![r].pc = "done"]
    /\ UNCHANGED <<profileVars, number_ranges, run, last, req, rateVars>>

\* both calls have returned; the next pair of calls may start
CycReturn ==
    /\ \A r \in Requests : cyc[r].pc \in {"done", "failed"}
    /\ cyc' = [r \in Requests |-> IdleCyc]
    /\ UNCHANGED <<profileVars, catalogVars, last, req, rateVars>>

NoCallInFlight == \A r \in Requests : cyc[r].pc = "idle"

CycCreateRangeStep ==
    /\ NoCallInFlight
    /\ \E v \in RangeValues, c \in CycleCategories : CreateRange(v, c)
CycDeleteRangeStep ==
    /\ NoCallInFlight
    /\ \E id \in 1..MaxRanges : DeleteRange(id)
CycReadStep == \E r \in Requests, c \in CycleCategories : CycRead(r, c)
CycLookupCurrentStep == \E r \in Requests : CycLookupCurrent(r)
CycLookupIndexStep == \E r \in Requests : CycLookupIndex(r)
CycCommitStep == \E r \in Requests : CycCommit(r)

NextCycleConc ==
    \/ CycCreateRangeStep
    \/ CycDeleteRangeStep
    \/ CycReadStep
    \/ CycLookupCurrentStep
    \/ CycLookupIndexStep
    \/ CycCommitStep
    \/ CycReturn

SpecCycleConc == Init /\ [][NextCycleConc]_vars

\* C8: when two cycle calls on the same non-empty category have both
\* completed, no update is lost: they selected two consecutive positions
\* (modulo the length) and the stored index is one past the later of them.
CycleNoLostUpdate ==
    (/\ \A r \in Requests : cyc[r].pc = "done" /\ cyc[r].len > 0
     /\ cyc[1].category = cyc[2].category) =>
        \E a \in Requests, b \in Requests :
            /\ a # b
            /\ cyc[b].pos = (cyc[a].pos + 1) % cyc[a].len
            /\ StoredIndex(configurations, cyc[b].category) = cyc[b].pos + 1

\* the last operation was a cycle call that found a non-empty list
Cycled == last.op = "cycle_ranges" /\ last.len > 0

\* the category list the last cycle call read (the catalog is unchanged
\* for as long as that call is the last operation)
CycledList == CategoryRanges(number_ranges, last.category)

\* C3: a cycle call on a non-empty category list completes without an index
\* error and returns a value that is in that category, whatever index was
\* stored, also after rows were deleted since the previous cycle call.
CycleNeverIndexError ==
    Cycled =>
        /\ last.error = None
        /\ \E i \in 1..Len(CycledList) : CycledList[i].range_value = last.value

\* a cycle call that found a stored index beyond the shrunken list
CycleNeverIndexErrorWitness ==
    /\ Cycled
    /\ last.had_index /\ last.stored > last.len
    /\ last.error = None /\ last.value \in RangeValues

\* C4 as stated: the selected position is the stored index modulo the
\* current length of the list.
CycleSelectsModulo ==
    (Cycled /\ last.error = None) => last.pos = last.stored % last.len

\* C4 amended: the selected position is the stored index when it is below
\* the current length, and 0 otherwise; the item at that position is the
\* one returned.
CycleSelectsWrapped ==
    (Cycled /\ last.error = None) =>
        /\ last.pos = (IF last.stored < last.len THEN last.stored ELSE 0)
        /\ last.value = CycledList[last.pos + 1].range_value

\* a stored index whose remainder modulo the length is not 0 wrapped to 0
CycleSelectsWrappedWitness ==
    /\ Cycled /\ last.error = None
    /\ last.stored > last.len /\ last.stored % last.len # 0
    /\ last.pos = 0

\* the index entry of the category of the last cycle call
CycledIndex == configurations[IndexKey(last.category)].index

\* C5 as stated: after a successful cycle step the stored index is a valid
\* position of the list the step read, 0 <= p < length.
CycleStoresInBounds ==
    (Cycled /\ last.error = None) =>
        (0 <= CycledIndex /\ CycledIndex < last.len)

\* C5 amended: after a successful cycle step the stored index is one more
\* than the selected position, so 1 <= p <= length.
CycleStoresNextPosition ==
    (Cycled /\ last.error = None) =>
        /\ CycledIndex = last.pos + 1
        /\ 1 <= CycledIndex /\ CycledIndex <= last.len

\* the last item of a list of two or more was selected: stored = length
CycleStoresNextPositionWitness ==
    /\ Cycled /\ last.error = None
    /\ last.len >= 2
    /\ CycledIndex = last.len

\* C6: while a category list of n items is not modified, successive cycle
\* calls return its items in list order, wrapping after the last one, and
\* n consecutive calls return every item exactly once.
CycleRoundRobin ==
    \A c \in Categories :
        LET list == CategoryRanges(number_ranges, c)
            n == Len(list)
            r == run[c]
        IN  /\ \A k \in 1..Len(r) :
                  /\ r[k].pos \in 0..(n - 1)
                  /\ r[k].value = list[r[k].pos + 1].range_value
            /\ \A k \in 1..(Len(r) - 1) : r[k + 1].pos = (r[k].pos + 1) % n
            /\ (n >= 1 /\ Len(r) = n) =>
                  {r[k].pos : k \in 1..n} = 0..(n - 1)

\* three consecutive calls on an unmodified list of three, the first of
\* them not starting at the head, so that the run wraps around
CycleRoundRobinWitness ==
    \E c \in Categories :
        /\ Len(CategoryRanges(number_ranges, c)) = 3
        /\ Len(run[c]) = 3
        /\ run[c][1].pos = 2

\* C7: with no index entry, or with a stored index >= the current length,
\* the cycle call returns the first item and persists index 1; with stored
\* index 1 and at least two items it returns the second item.
CycleScenario ==
    Cycled =>
        /\ last.error = None
        /\ (~last.had_index \/ last.stored >= last.len) =>
              /\ last.value = CycledList[1].range_value
              /\ CycledIndex = 1
        /\ (last.had_index /\ last.stored = 1 /\ last.len >= 2) =>
              last.value = CycledList[2].range_value

\* stored index 2 after the list shrank to one item: wrapped to the head
CycleScenarioWitness ==
    /\ Cycled
    /\ last.had_index /\ last.stored = 2 /\ last.len = 1
    /\ last.value = CycledList[1].range_value
    /\ CycledIndex = 1

\* C9: no two rows of number_ranges have the same (range_value, category)
\* pair, in any state reached by create, update and delete operations.
RangePairUnique ==
    \A i \in 1..Len(number_ranges), j \in 1..Len(number_ranges) :
        (/\ number_ranges[i].range_value = number_ranges[j].range_value
         /\ number_ranges[i].category = number_ranges[j].category) => i = j

\* C10: creating a pair that already exists answers DuplicateRange (400)
\* and leaves the catalog unchanged; creating a value that exists only in
\* other categories succeeds and leaves the existing rows in place.
CreateDuplicateRejected ==
    [][\A v \in RangeValues, c \in Categories :
          CreateRange(v, c) =>
             /\ Matching(number_ranges, v, c) # {} =>
                   /\ last'.status = 400
                   /\ number_ranges' = number_ranges
             /\ (/\ Matching(number_ranges, v, c) = {}
                 /\ \E i \in 1..Len(number_ranges) :
                       number_ranges[i].range_value = v) =>
                   /\ last'.status = 200
                   /\ Tail(number_ranges') = number_ranges]_vars

\* =====================================================================
\* Timer status (TimerService.get_status / start_timer / stop_timer)
\* =====================================================================
Intervals == {1, 2}
TimerOps == {"start_timer", "stop_timer"}

\* the value start_timer builds: started_at = now, next_cycle = now +
\* interval_minutes
StartedStatus(category, interval_minutes, now) ==
    [active |-> TRUE, category |-> category,
     interval_minutes |-> interval_minutes,
     started_at |-> now, next_cycle |-> now + interval_minutes]

\* the value stop_timer builds, whatever category it is called with
StoppedStatus(now) ==
    [active |-> FALSE, category |-> None, interval_minutes |-> 0,
     stopped_at |-> now]

\* TimerService.get_status: the stored value, or the default when the
\* timer_status row does not exist
GetStatus(cfg) ==
    IF "timer_status" \in DOMAIN cfg THEN cfg["timer_status"]
    ELSE [active |-> FALSE, current_range |-> None, next_cycle |-> None,
          category |-> None, interval_minutes |-> 0]

\* a save that keeps one status row per category
SavedStatusPerCategory(cfg, status) ==
    Upsert(cfg, "timer_status_" \o status.category, status)

\* a save that rewrites the table with the status row alone
SavedStatusAlone(cfg, status) == Upsert(NoConfig, "timer_status", status)

\* select the timer_status row, assign its value or add the row, commit
SavedStatus(cfg, status) == Upsert(cfg, "timer_status", status)

\* POST /timer/stop -> TimerService.stop_timer
StopTimer(category) ==
    /\ configurations' = SavedStatus(configurations, StoppedStatus(clock))
    /\ last' = [op |-> "stop_timer", category |-> category,
                interval_minutes |-> 0,
                was_active |-> GetStatus(configurations).active,
                was_category |-> GetStatus(configurations).category,
                now |-> clock, success |-> TRUE]
    /\ UNCHANGED <<profileVars, number_ranges, run, req, cyc, rateVars>>

\* POST /timer/start -> TimerService.start_timer: stop_timer first, then
\* the fresh status
StartTimer(category, interval_minutes) ==
    /\ LET stopped == SavedStatus(configurations, StoppedStatus(clock))
       IN  configurations' =
               SavedStatus(stopped,
                           StartedStatus(category, interval_minutes, clock))
    /\ last' = [op |-> "start_timer", category |-> category,
                interval_minutes |-> interval_minutes,
                was_active |-> GetStatus(configurations).active,
                was_category |-> GetStatus(configurations).category,
                now |-> clock, success |-> TRUE]
    /\ UNCHANGED <<profileVars, number_ranges, run, req, cyc, rateVars>>

\* time passes between two requests
Tick ==
    /\ clock < MaxClock
    /\ clock' = clock + 1
    /\ UNCHANGED <<profiles, nextProfileId, catalogVars, last, req, cyc, rateVars>>

StartTimerStep ==
    \E c \in Categories, m \in Intervals : StartTimer(c, m)
StopTimerStep == \E c \in Categories : StopTimer(c)

NextTimer ==
    \/ CycCreateRangeStep
    \/ CycDeleteRangeStep
    \/ CycleRangesStep
    \/ StartTimerStep
    \/ StopTimerStep
    \/ Tick

SpecTimer == Init /\ [][NextTimer]_vars

\* C17: after start(category, interval_minutes) the timer status is active
\* with that category and interval; after stop(category) it is not active;
\* each write replaces the whole entry: a start after a running timer
\* leaves one fresh active status, a stop keeps no field of the start.
TimerStatusReplaced ==
    /\ last.op = "start_timer" =>
          /\ "timer_status" \in DOMAIN configurations
          /\ GetStatus(configurations) =
                 StartedStatus(last.category, last.interval_minutes, last.now)
          /\ GetStatus(configurations).active
          /\ DOMAIN GetStatus(configurations) =
                 {"active", "category", "interval_minutes", "started_at",
                  "next_cycle"}
    /\ last.op = "stop_timer" =>
          /\ "timer_status" \in DOMAIN configurations
          /\ ~GetStatus(configurations).active
          /\ GetStatus(configurations).category = None
          /\ GetStatus(configurations).stopped_at = last.now
          /\ DOMAIN GetStatus(configurations) =
                 {"active", "category", "interval_minutes", "stopped_at"}

\* a timer was stopped while it was running
TimerStatusReplacedWitness ==
    /\ last.op = "stop_timer" /\ last.was_active
    /\ ~GetStatus(configurations).active

\* C18: start and stop write the timer status only: every category's
\* cycle index, the current_range entry and the range catalog are as they
\* were, so the next cycle continues from the persisted position.
TimerWritesStatusOnly ==
    [][last'.op \in TimerOps =>
          /\ number_ranges' = number_ranges
          /\ DOMAIN configurations' = DOMAIN configurations \cup {"timer_status"}
          /\ \A k \in DOMAIN configurations \ {"timer_status"} :
                configurations'[k] = configurations[k]
          /\ \A c \in Categories :
                StoredIndex(configurations', c) = StoredIndex(configurations, c)]_vars

\* a running timer was restarted in the middle of a round of cycling
TimerWritesStatusOnlyWitness ==
    /\ last.op = "start_timer" /\ last.was_active
    /\ "current_range" \in DOMAIN configurations
    /\ \E c \in CycleCategories :
          /\ IndexKey(c) \in DOMAIN configurations
          /\ StoredIndex(configurations, c) >= 1
          /\ StoredIndex(configurations, c) < Len(CategoryRanges(number_ranges, c))

\* C19: cycle(category) on a category without ranges returns the
\* no-selection value without raising and leaves the current_range entry
\* and the category's cycle index entry as they were.
CycleEmptyLeavesEntries ==
    [][(/\ last'.op = "cycle_ranges"
        /\ \A i \in 1..Len(number_ranges) :
              number_ranges[i].category # last'.category) =>
          /\ last'.value = None
          /\ last'.error = None
          /\ configurations' = configurations]_vars

\* a cycle call on a category that was emptied after it had been cycled
CycleEmptyLeavesEntriesWitness ==
    /\ last.op = "cycle_ranges" /\ last.len = 0 /\ last.value = None
    /\ last.had_index
    /\ StoredIndex(configurations, last.category) >= 1
    /\ "current_range" \in DOMAIN configurations
    /\ configurations["current_range"].category = last.category

\* update and delete requests on a catalog of two range values
UpdateValues == {"r0", "r1"}
UpdCreateRangeStep ==
    \E v \in UpdateValues, c \in Categories : CreateRange(v, c)
UpdUpdateRangeStep ==
    \E id \in 1..MaxRanges, v \in UpdateValues \cup {Unset},
       c \in Categories \cup {Unset}, touch \in BOOLEAN :
        UpdateRange(id, v, c, touch)

NextUpdate ==
    \/ UpdCreateRangeStep
    \/ UpdUpdateRangeStep
    \/ DeleteRangeStep

SpecUpdate == Init /\ [][NextUpdate]_vars

TimerStatusGlobal ==
    /\ Cardinality({k \in DOMAIN configurations :
                       /\ "active" \in DOMAIN configurations[k]
                       /\ configurations[k].active}) <= 1
    /\ last.op = "start_timer" =>
          /\ GetStatus(configurations).active
          /\ GetStatus(configurations).category = last.category
    /\ last.op = "stop_timer" => ~GetStatus(configurations).active

\* stop(c) ended a timer that was running for another category
TimerStatusGlobalWitness ==
    /\ last.op = "stop_timer" /\ last.was_active
    /\ last.was_category \in Categories \ {last.category}
    /\ ~GetStatus(configurations).active

\* ---------------------------------- cycle calls on every category, timer
AnyCreateRangeStep ==
    \E v \in RangeValues, c \in Categories : CreateRange(v, c)
AnyCycleRangesStep == \E c \in Categories : CycleRanges(c)
AnyStartTimerStep == \E c \in Categories : StartTimer(c, 1)

NextCycleAny ==
    \/ AnyCreateRangeStep
    \/ AnyCycleRangesStep
    \/ AnyStartTimerStep
    \/ StopTimerStep

\* cycle calls of both categories between range creations and timer requests
SpecCycleAny == Init /\ [][NextCycleAny]_vars

\* the rows stored under a key: one row or none
Entry(cfg, key) == IF key \in DOMAIN cfg THEN {cfg[key]} ELSE {}

\* C28: cycle(A) leaves the cycle index of every other category and the
\* timer_status row as they were, succeeds whether or not a timer is
\* active, and a successful cycle writes the one current_range row, which
\* no other step changes: current_range names the category and value of
\* the most recent successful cycle of any category.
CycleFrame ==
    [][/\ last'.op = "cycle_ranges" =>
            /\ \A b \in Categories \ {last'.category} :
                   Entry(configurations', IndexKey(b)) =
                       Entry(configurations, IndexKey(b))
            /\ Entry(configurations', "timer_status") =
                   Entry(configurations, "timer_status")
            /\ (last'.len > 0 /\ last'.error = None) =>
                   /\ last'.value # None
                   /\ Entry(configurations', "current_range") =
                          {[current_range |-> last'.value,
                            category |-> last'.category]}
       /\ (last'.op # "cycle_ranges" \/ last'.value = None) =>
            Entry(configurations', "current_range") =
                Entry(configurations, "current_range")]_vars

\* a cycle of recents succeeded with no active timer, next to the index
\* row of favorites and a stopped timer_status row
CycleFrameWitness ==
    /\ last.op = "cycle_ranges" /\ last.category = "recents"
    /\ last.value # None
    /\ IndexKey("favorites") \in DOMAIN configurations
    /\ "timer_status" \in DOMAIN configurations
    /\ ~GetStatus(configurations).active
    /\ configurations["current_range"].category = "recents"

ParsedData ==
    {[url |-> "getnum", headers |-> "h", cookies |-> "c", data |-> "d"],
     [url |-> "getnum"]}

\* contents of a legacy config.json that has no range lists
ConfigFiles ==
    {[parsed_data |-> pd, paused |-> b] : pd \in ParsedData, b \in BOOLEAN}
        \cup {[paused |-> b] : b \in BOOLEAN}
        \cup {[parsed_data |-> pd] : pd \in ParsedData}

\* a row is added only when its key has no row yet
AddIfAbsent(cfg, key, value) ==
    IF key \in DOMAIN cfg THEN cfg ELSE Upsert(cfg, key, value)

\* init_db.migrate_json_config for a config.json without favourites,
\* recents and special, and no shared_params.json
MigrateJsonConfig(config_data) ==
    /\ LET with_config ==
               IF "parsed_data" \in DOMAIN config_data
               THEN AddIfAbsent(configurations, "current_config",
                                config_data.parsed_data)
               ELSE configurations
           paused == IF "paused" \in DOMAIN config_data
                     THEN config_data.paused ELSE FALSE
       IN  configurations' =
               AddIfAbsent(with_config, "paused", [paused |-> paused])
    /\ last' = [op |-> "migrate_json_config"]
    /\ UNCHANGED <<profileVars, number_ranges, run, req, cyc, rateVars>>

\* pause_row and pause_row.value.get("paused", False)
Paused(cfg) ==
    /\ "paused" \in DOMAIN cfg
    /\ "paused" \in DOMAIN cfg["paused"]
    /\ cfg["paused"].paused

\* config["data"]["numberRange"] = ... and config["headers"]["referer"] =
\* ... on the stored current_config value raise KeyError when the value
\* lacks one of the two keys
TemplateKeyError(cfg) ==
    /\ "current_config" \in DOMAIN cfg
    /\ ~({"data", "headers"} \subseteq DOMAIN cfg["current_config"])

\* what a public fetch request answers: upstream_call says whether the
\* Gateway posted to the upstream
PublicResponse(op, paused, upstream_call, status, body) ==
    [op |-> op, paused |-> paused, upstream_call |-> upstream_call,
     status |-> status, body |-> body]

\* the router's answer around ExternalAPIService.fetch_number: the
\* upstream response passed through, or HTTP 500 when the call raised
Forwarded(op, paused, number_range, outcome) ==
    LET g == GatewayResponse("fetch_number", number_range,
                             GetActiveConfig(profiles), outcome, None)
    IN  IF g.sent /\ outcome # "network_error"
        THEN PublicResponse(op, paused, TRUE, "upstream", "upstream")
        ELSE PublicResponse(op, paused, g.sent, 500, "detail")

\* GET /fetch-number
PublicFetchNumber(outcome) ==
    /\ last' = IF Paused(configurations)
               THEN PublicResponse("fetch_number_default", TRUE, FALSE, 200,
                                   "Server is paused")
               ELSE Forwarded("fetch_number_default", FALSE,
                              DefaultNumberRange, outcome)
    /\ UNCHANGED <<profileVars, catalogVars, req, cyc, rateVars>>

\* GET /fetch-number/range/{number_range}
FetchNumberWithRange(number_range, outcome) ==
    /\ last' = IF TemplateKeyError(configurations)
               THEN PublicResponse("fetch_number_with_range",
                                   Paused(configurations), FALSE, 500,
                                   "detail")
               ELSE Forwarded("fetch_number_with_range",
                              Paused(configurations), number_range, outcome)
    /\ UNCHANGED <<profileVars, catalogVars, req, cyc, rateVars>>

MigrateJsonConfigStep == \E cd \in ConfigFiles : MigrateJsonConfig(cd)
PublicFetchNumberStep ==
    \E outcome \in GatewayOutcomes : PublicFetchNumber(outcome)
FetchNumberWithRangeStep ==
    \E outcome \in GatewayOutcomes : FetchNumberWithRange("r0", outcome)

NextPublic ==
    \/ MigrateJsonConfigStep
    \/ GwCreateProfileStep
    \/ DeleteProfileStep
    \/ PublicFetchNumberStep
    \/ FetchNumberWithRangeStep

\* public fetch requests after a migration of the legacy configuration
SpecPublic == Init /\ [][NextPublic]_vars

RateLimit == 3
Window == 2

\* current_time - req_time < 3600
Recent(t, now) == now - t < Window

\* a check that lets one request too many through
ExceedsLate(n) == n > RateLimit

\* len(rate_limit_storage[client_ip]) >= 100
Exceeds(n) == n >= RateLimit

\* the list comprehension that drops the old request times
Cleaned(times, now) ==
    LET Keep(t) == Recent(t, now) IN SelectSeq(times, Keep)

\* one request of client_ip through rate_limit_middleware
RateLimited(client_ip) ==
    /\ LET cleaned == Cleaned(rate_limit_storage[client_ip], clock)
       IN  IF Exceeds(Len(cleaned))
           THEN /\ rate_limit_storage' =
                      [rate_limit_storage EXCEPT ![client_ip] = cleaned]
                /\ admitted' = admitted
                /\ last' = [op |-> "request", client_ip |-> client_ip,
                            status |-> 429]
           ELSE /\ rate_limit_storage' =
                      [rate_limit_storage EXCEPT
                          ![client_ip] = Append(cleaned, clock)]
                /\ admitted' = [admitted EXCEPT
                                  ![client_ip] = Append(@, clock)]
                /\ last' = [op |-> "request", client_ip |-> client_ip,
                            status |-> 200]
    /\ UNCHANGED <<profileVars, catalogVars, req, cyc>>

RateLimitedStep == \E client_ip \in Clients : RateLimited(client_ip)

NextRate ==
    \/ RateLimitedStep
    \/ Tick

SpecRate == Init /\ [][NextRate]_vars

\* the number of requests of a client let through at the times t with
\* from <= t < from + Window
AdmittedIn(ip, from) ==
    Cardinality({i \in 1..Len(admitted[ip]) :
                    from <= admitted[ip][i] /\ admitted[ip][i] < from + Window})

\* C24: per client address at most RateLimit requests are admitted within
\* any sliding window; a request that finds RateLimit admitted requests in
\* the preceding window is rejected and not recorded; the count of one
\* client never affects the admission of another.
RateLimitPerClient ==
    /\ [](\A ip \in Clients : \A from \in 0..MaxClock :
            AdmittedIn(ip, from) <= RateLimit)
    /\ [][(last'.op = "request" /\ clock' = clock) =>
            LET ip == last'.client_ip
                seen == AdmittedIn(ip, clock - Window + 1)
            IN  /\ last'.status = 429 <=> seen >= RateLimit
                /\ last'.status = 429 => admitted' = admitted
                /\ last'.status = 200 =>
                      admitted'[ip] = Append(admitted[ip], clock)
                /\ \A other \in Clients \ {ip} :
                      /\ rate_limit_storage'[other] = rate_limit_storage[other]
                      /\ admitted'[other] = admitted[other]]_vars

\* a client was rejected at its cap while the other client, below its
\* own cap, had been admitted at the same time
RateLimitPerClientWitness ==
    /\ last.op = "request" /\ last.status = 429
    /\ Len(Cleaned(rate_limit_storage[last.client_ip], clock)) = RateLimit
    /\ \E other \in Clients \ {last.client_ip} :
          /\ Len(admitted[other]) >= 1
          /\ admitted[other][Len(admitted[other])] = clock
    /\ Len(admitted[last.client_ip]) > RateLimit

=============================================================================
